---- MODULE Spec2Model ----
(***************************************************************************)
(* Model of pdf_extractor.py: the document validator check_pdf_file, the   *)
(* three backend adapters extract_with_pdfplumber / _pypdf / _pdfminer and *)
(* the fallback loop of extract_pdf_text with its quality judgement.       *)
(*                                                                         *)
(* Text representation.  A Python str is modelled by the list of its       *)
(* lines, i.e. by what str.split('\n') returns: a non-empty sequence of    *)
(* lines ("" is the one-line text whose line is empty).  None is the empty *)
(* sequence.  A line is abstracted to what the program reads of it:        *)
(*   k   "blank" : line.strip() is empty                                   *)
(*       "eq"    : line.startswith('===')                                  *)
(*       "text"  : a non-blank line whose first character is not '='       *)
(*   n   len(line)                                                         *)
(*   id  which literal the line is ("Page", "NoText", "Estimate" for the   *)
(*       markers the adapters write, "Glued" for a marker with text glued  *)
(*       to it, "" for text that came from the PDF library)                *)
(*   p   the page number written into a page marker (0 otherwise)          *)
(* The PDF libraries are opaque: what they return is chosen by the         *)
(* environment from bounded sets.                                          *)
(***************************************************************************)
EXTENDS Integers, Sequences, FiniteSets, TLC

\* ------------------------------------------------------------------ bounds
MaxPages == 3   \* pages a page-oriented library reports
MaxLines == 7   \* lines of the text pdfminer's extract_text returns
MaxSpecial == 2 \* lines of that text that are empty or chars_per_page long

\* ------------------------------------------------------- program constants
chars_per_page == 2000     \* extract_with_pdfminer
ContentThreshold == 5      \* extract_pdf_text: len(content_lines) > 5
HeaderBytes == 5           \* check_pdf_file: f.read(5)

\* -------------------------------------------------------------------- text
None == <<>>

Line(k, n, id, p) == [k |-> k, n |-> n, id |-> id, p |-> p]

EmptyLine == Line("blank", 0, "", 0)

EmptyStr == <<EmptyLine>>

\* "\n"
NL == <<EmptyLine, EmptyLine>>

\* "=== Page {i} ===" : 14 characters for a one-digit page number
PageMarker(i) == Line("eq", 14, "Page", i)

\* "=== Page {i} === [无文本]" : 20 characters
NoTextMarker(i) == Line("eq", 20, "NoText", i)

\* "=== Page 估计 ===" : 15 characters
EstimateMarker == Line("eq", 15, "Estimate", 0)

\* a + b for two pieces of one line
Glue(a, b) ==
    IF a.n = 0 THEN b
    ELSE IF b.n = 0 THEN a
    ELSE Line(IF a.k = "blank" THEN (IF b.k = "blank" THEN "blank" ELSE "text") ELSE a.k,
              a.n + b.n,
              IF a.id = "" THEN "" ELSE "Glued",
              a.p)

\* s + t for two strs: the last line of s and the first line of t become one line
Concat(s, t) ==
    SubSeq(s, 1, Len(s) - 1) \o <<Glue(s[Len(s)], t[1])>> \o Tail(t)

RECURSIVE JoinFrom(_, _, _, _)
JoinFrom(sep, list, i, acc) ==
    IF i > Len(list) THEN acc
    ELSE JoinFrom(sep, list, i + 1, Concat(Concat(acc, sep), list[i]))

\* sep.join(list)
Join(sep, list) ==
    IF Len(list) = 0 THEN EmptyStr ELSE JoinFrom(sep, list, 2, list[1])

\* bool(s) for an Optional[str]
Truthy(s) == s # None /\ s # EmptyStr

\* s.strip() is non-empty
StripNonEmpty(s) == \E i \in 1..Len(s) : s[i].k # "blank"

RECURSIVE SumLen(_)
\* sum(len(l) for l in lines)
SumLen(lines) == IF Len(lines) = 0 THEN 0 ELSE lines[1].n + SumLen(Tail(lines))

\* --------------------------------------------------------------------- log
Log(level, who, what) == [level |-> level, who |-> who, what |-> what]

\* ---------------------------------------------------------------- adapters
\* What an adapter hands back: the value it returns, the lines it logs, and
\* (page-oriented adapters) the text_parts list it built.
Outcome(ret, logs, parts) == [ret |-> ret, logs |-> logs, parts |-> parts]

\* PagePart with the marker written without its line break, as line 111 does
PagePart_NoBreak(i, page_text) ==
    IF Truthy(page_text)
    THEN Concat(Concat(<<PageMarker(i)>>, page_text), NL)
    ELSE Concat(<<NoTextMarker(i)>>, NL)

\* PagePart that appends nothing for a page without text
PagePart_Skip(i, page_text) ==
    IF Truthy(page_text)
    THEN Concat(Concat(Concat(<<PageMarker(i)>>, NL), page_text), NL)
    ELSE EmptyStr

\* One text_parts entry, lines 38-41 and 72-75
PagePart(i, page_text) ==
    IF Truthy(page_text)
    THEN Concat(Concat(Concat(<<PageMarker(i)>>, NL), page_text), NL)
    ELSE Concat(<<NoTextMarker(i)>>, NL)

\* "无文本" in part
HasNoTextMark(part) == \E j \in 1..Len(part) : part[j].id = "NoText"

\* The page loop, lines 36-41 and 70-75: enumerate(pages, 1)
TextParts(pages) == [i \in 1..Len(pages) |-> PagePart(i, pages[i])]

\* Lines 29-57 (and 62-91 with who = "pypdf"): lib is "ImportError", "Exception"
\* or "ok"; pages is the list of page.extract_text() values.
PageAdapter(who, lib, pages) ==
    IF lib = "ImportError" THEN Outcome(None, <<Log("error", who, "unavailable")>>, <<>>)
    ELSE IF lib = "Exception" THEN Outcome(None, <<Log("error", who, "failed")>>, <<>>)
    ELSE LET text_parts == TextParts(pages)
         IN Outcome(Join(EmptyStr, text_parts),
                    IF ~ \E i \in 1..Len(text_parts) : HasNoTextMark(text_parts[i])
                    THEN <<Log("info", who, "all_pages_have_text")>>
                    ELSE <<Log("warning", who, "some_pages_without_text")>>,
                    text_parts)

extract_with_pdfplumber(lib, pages) == PageAdapter("pdfplumber", lib, pages)

extract_with_pypdf(lib, pages) == PageAdapter("pypdf", lib, pages)

\* A page of the pdfminer adapter, lines 111 and 115
EstimatedPage(current_page) ==
    Concat(<<EstimateMarker>>, Join(NL, [j \in 1..Len(current_page) |-> <<current_page[j]>>]))

RECURSIVE EstimatePages(_, _, _, _)
\* Lines 104-115: the loop over lines, then the rest
EstimatePages(lines, i, pages, current_page) ==
    IF i > Len(lines)
    THEN IF Len(current_page) > 0 THEN Append(pages, EstimatedPage(current_page)) ELSE pages
    ELSE LET cur == Append(current_page, lines[i])
         IN IF SumLen(cur) >= chars_per_page
            THEN EstimatePages(lines, i + 1, Append(pages, EstimatedPage(cur)), <<>>)
            ELSE EstimatePages(lines, i + 1, pages, cur)

\* Lines 96-126: text is what extract_text returned
extract_with_pdfminer(lib, text) ==
    IF lib = "ImportError" THEN Outcome(None, <<Log("error", "pdfminer", "unavailable")>>, <<>>)
    ELSE IF lib = "Exception" THEN Outcome(None, <<Log("error", "pdfminer", "failed")>>, <<>>)
    ELSE IF Truthy(text)
    THEN LET pages == EstimatePages(text, 1, <<>>, <<>>)
         IN Outcome(Join(<<EmptyLine, EmptyLine, EmptyLine>>, pages), <<>>, pages)
    ELSE Outcome(None, <<Log("warning", "pdfminer", "no_text")>>, <<>>)

\* --------------------------------------------------------------- validator
\* pdf_path.lower() applied to the path's suffix
Lower(ext) ==
    CASE ext = ".PDF" -> ".pdf"
      [] ext = ".Pdf" -> ".pdf"
      [] ext = ".TXT" -> ".txt"
      [] OTHER -> ext

\* pdf_path.lower().endswith('.pdf')
HasPdfExtension(f) == Lower(f.ext) = ".pdf"

\* f.read(5)
ReadHeader(f) == SubSeq(f.content, 1, IF Len(f.content) < HeaderBytes THEN Len(f.content) ELSE HeaderBytes)

\* header.startswith(b'%PDF')
StartsWithPDF(header) == Len(header) >= 4 /\ SubSeq(header, 1, 4) = <<"%", "P", "D", "F">>

\* Lines 129-145: (is_valid, msg)
check_pdf_file(f) ==
    IF ~ f.exists THEN <<FALSE, "not_found">>
    ELSE IF ~ HasPdfExtension(f) THEN <<FALSE, "not_pdf_format">>
    ELSE IF ~ f.readable THEN <<FALSE, "read_failed">>
    ELSE IF ~ StartsWithPDF(ReadHeader(f)) THEN <<FALSE, "no_signature">>
    ELSE <<TRUE, "valid">>

\* ------------------------------------------------------------ orchestrator
\* select_methods that ignores the selector
select_methods_All(m) == <<"pdfplumber", "pypdf", "pdfminer">>

\* Lines 169-172
select_methods(m) ==
    IF m = "auto" THEN <<"pdfplumber", "pypdf", "pdfminer">> ELSE <<m>>

\* line.strip() and not line.startswith('===')
IsContentLine(l) == l.k # "blank" /\ l.k # "eq"

\* Lines 186-187
content_lines(text) == SelectSeq(text, IsContentLine)

\* Line 184
HasText(text) == Truthy(text) /\ StripNonEmpty(text)

\* EnoughContent as the comment of line 188 words it: at least 5 lines
EnoughContent_AtLeast(lines) == Len(lines) >= ContentThreshold

\* Line 188
EnoughContent(lines) == Len(lines) > ContentThreshold

\* Lines 184-193: the verdict on what a backend returned
Accepted(text) == HasText(text) /\ EnoughContent(content_lines(text))

\* GateOpen that lets every path through
GateOpen_Always(valid) == TRUE

\* Line 161: the gate in front of the loop
GateOpen(valid) == valid

\* NextPc without the break of line 190
NextPc_NoBreak(accepted) == "loop"

\* Lines 176 and 190: the loop goes on while candidates are left and none was accepted
NextPc(accepted) == IF accepted THEN "break" ELSE "loop"

\* ------------------------------------------------------------- environment
TextLine == Line("text", 1, "", 0)

LongTextLine == Line("text", chars_per_page, "", 0)

\* page.extract_text(): None, "", one line or two lines
PageTexts == {None, EmptyStr, <<TextLine>>, <<TextLine, TextLine>>}

\* What a page-oriented library does with a document of n pages: it is
\* missing, it raises, or it yields the texts of the n pages
PageLibs(n) ==
    {<<"ImportError", <<>>>>, <<"Exception", <<>>>>}
    \cup {<<"ok", pages>> : pages \in [1..n -> PageTexts]}

Count(t, l) == Cardinality({i \in 1..Len(t) : t[i] = l})

\* pdfminer's extract_text(): up to MaxLines lines
RawTexts ==
    {t \in UNION {[1..n -> {TextLine, EmptyLine, LongTextLine}] : n \in 0..MaxLines} :
        Count(t, LongTextLine) + Count(t, EmptyLine) <= MaxSpecial}

MinerLibs ==
    {<<"ImportError", None>>, <<"Exception", None>>} \cup {<<"ok", t>> : t \in RawTexts}

Contents ==
    { <<>>,
      <<"%", "P", "D">>,
      <<"%", "P", "D", "F">>,
      <<"%", "P", "D", "F", "-">>,
      <<"%", "P", "D", "F", "-", "1">>,
      <<"%", "P", "D", "F", "x", "1">>,
      <<"x", "P", "D", "F", "-", "1">>,
      <<"P", "K", "x", "x", "x", "x">> }

Exts == {".pdf", ".PDF", ".txt", ""}

File(exists, ext, readable, content, pages) ==
    [exists |-> exists, ext |-> ext, readable |-> readable, content |-> content, pages |-> pages]

ValidContent == <<"%", "P", "D", "F", "-", "1">>

\* The documents of the extraction runs: a well-formed PDF of each page count
\* and one document for each way validation can fail
Documents ==
    {File(TRUE, ".pdf", TRUE, ValidContent, n) : n \in 0..MaxPages}
    \cup {File(FALSE, ".pdf", TRUE, ValidContent, 1),
          File(TRUE, ".txt", TRUE, ValidContent, 1),
          File(TRUE, ".pdf", FALSE, ValidContent, 1),
          File(TRUE, ".pdf", TRUE, <<"P", "K", "x", "x", "x", "x">>, 1)}

\* The files of the validator runs
AllFiles ==
    {File(e, x, r, c, 1) : e \in BOOLEAN, x \in Exts, r \in BOOLEAN, c \in Contents}

Selectors == {"auto", "pdfplumber", "pypdf", "pdfminer", "ocr"}

\* ------------------------------------------------------------------- state
\* pc, file, method, checked (is_valid, msg), methods, idx (position of
\* method_name in methods), extracted_text, log and result are the program's.
\* calls and last are history: calls keeps a summary of every backend
\* invocation of the request, last keeps the input and output of the
\* invocation that ended the loop.
VARIABLES pc, file, method, checked, methods, idx, extracted_text, calls, last, log, result

vars == <<pc, file, method, checked, methods, idx, extracted_text, calls, last, log, result>>

Call(name, lib, input, parts, out) ==
    [name |-> name, lib |-> lib, input |-> input, parts |-> parts, out |-> out]

NoCall == Call("", "", <<>>, <<>>, None)

Summary(name, lib, cls, libgood, allreal) ==
    [name |-> name, lib |-> lib, cls |-> cls, libgood |-> libgood, allreal |-> allreal]

RECURSIVE CountContent(_)
\* number of lines of a text that are not blank and do not start with '==='
CountContent(text) ==
    IF Len(text) = 0 THEN 0
    ELSE (IF text[1].k = "text" THEN 1 ELSE 0) + CountContent(Tail(text))

RECURSIVE CountContentPages(_)
CountContentPages(pages) ==
    IF Len(pages) = 0 THEN 0
    ELSE CountContent(pages[1]) + CountContentPages(Tail(pages))

AllNoText(pages) == Len(pages) > 0 /\ \A i \in 1..Len(pages) : ~ Truthy(pages[i])

AllRealText(pages) == Len(pages) > 0 /\ \A i \in 1..Len(pages) : CountContent(pages[i]) > 0

\* the class of what an invocation returned
ClassOf(lib, ret, pages) ==
    IF lib = "ImportError" THEN "unavailable"
    ELSE IF lib = "Exception" THEN "failed"
    ELSE IF ret = None THEN "none"
    ELSE IF ret = EmptyStr THEN "empty"
    ELSE IF ~ StripNonEmpty(ret) THEN "blank"
    ELSE IF CountContent(ret) = 0 THEN (IF AllNoText(pages) THEN "allnotext" ELSE "marker")
    ELSE IF CountContent(ret) <= 5 THEN "few"
    ELSE "good"

Init ==
    /\ pc = "start"
    /\ file \in Documents
    /\ method \in Selectors
    /\ checked = <<FALSE, "">>
    /\ methods = <<>>
    /\ idx = 0
    /\ extracted_text = None
    /\ calls = <<>>
    /\ last = NoCall
    /\ log = <<>>
    /\ result = None

InitCheck ==
    /\ pc = "start"
    /\ file \in AllFiles
    /\ method \in Selectors
    /\ checked = <<FALSE, "">>
    /\ methods = <<>>
    /\ idx = 0
    /\ extracted_text = None
    /\ calls = <<>>
    /\ last = NoCall
    /\ log = <<>>
    /\ result = None

\* Line 160
CheckFile ==
    /\ pc = "start"
    /\ checked' = check_pdf_file(file)
    /\ pc' = "checked"
    /\ UNCHANGED <<file, method, methods, idx, extracted_text, calls, last, log, result>>

\* Lines 161-163
Reject ==
    /\ pc = "checked"
    /\ ~ GateOpen(checked[1])
    /\ log' = Append(log, Log("error", "validator", checked[2]))
    /\ result' = None
    /\ pc' = "done"
    /\ UNCHANGED <<file, method, checked, methods, idx, extracted_text, calls, last>>

\* Lines 165-174
Enter ==
    /\ pc = "checked"
    /\ GateOpen(checked[1])
    /\ methods' = select_methods(method)
    /\ idx' = 1
    /\ extracted_text' = None
    /\ pc' = "loop"
    /\ UNCHANGED <<file, method, checked, calls, last, log, result>>

\* Lines 184-193 after a backend returned o for the candidate name
JudgeStep(name, o) ==
    IF HasText(o.ret)
    THEN IF EnoughContent(content_lines(o.ret))
         THEN /\ log' = log \o o.logs \o <<Log("info", name, "success")>>
              /\ extracted_text' = o.ret
              /\ pc' = NextPc(TRUE)
              /\ idx' = idx
         ELSE /\ log' = log \o o.logs \o <<Log("warning", name, "low_quality")>>
              /\ extracted_text' = None
              /\ pc' = NextPc(FALSE)
              /\ idx' = idx + 1
    ELSE /\ log' = log \o o.logs
         /\ extracted_text' = o.ret
         /\ pc' = NextPc(FALSE)
         /\ idx' = idx + 1

InLoop == pc = "loop" /\ idx <= Len(methods)

\* history: the invocation is remembered in full when it ends the loop
Remember(c) ==
    last' = IF Accepted(c.out) \/ idx = Len(methods) THEN c ELSE last

\* Lines 177-178 and 184-193
TryPdfplumber ==
    /\ InLoop
    /\ methods[idx] = "pdfplumber"
    /\ \E e \in PageLibs(file.pages) :
          LET o == extract_with_pdfplumber(e[1], e[2])
          IN /\ JudgeStep("pdfplumber", o)
             /\ calls' = Append(calls, Summary("pdfplumber", e[1], ClassOf(e[1], o.ret, e[2]),
                                               CountContentPages(e[2]) > 5, AllRealText(e[2])))
             /\ Remember(Call("pdfplumber", e[1], e[2], o.parts, o.ret))
    /\ UNCHANGED <<file, method, checked, methods, result>>

\* Lines 179-180 and 184-193
TryPypdf ==
    /\ InLoop
    /\ methods[idx] = "pypdf"
    /\ \E e \in PageLibs(file.pages) :
          LET o == extract_with_pypdf(e[1], e[2])
          IN /\ JudgeStep("pypdf", o)
             /\ calls' = Append(calls, Summary("pypdf", e[1], ClassOf(e[1], o.ret, e[2]),
                                               CountContentPages(e[2]) > 5, AllRealText(e[2])))
             /\ Remember(Call("pypdf", e[1], e[2], o.parts, o.ret))
    /\ UNCHANGED <<file, method, checked, methods, result>>

\* Lines 181-182 and 184-193
TryPdfminer ==
    /\ InLoop
    /\ methods[idx] = "pdfminer"
    /\ \E e \in MinerLibs :
          LET o == extract_with_pdfminer(e[1], e[2])
          IN /\ JudgeStep("pdfminer", o)
             /\ calls' = Append(calls, Summary("pdfminer", e[1], ClassOf(e[1], o.ret, <<>>),
                                               CountContent(e[2]) > 5, FALSE))
             /\ Remember(Call("pdfminer", e[1], e[2], o.parts, o.ret))
    /\ UNCHANGED <<file, method, checked, methods, result>>

\* Lines 176-193 for a candidate that is none of the three names: no branch of
\* the if/elif chain is taken and the judgement sees what extracted_text holds
TryOther ==
    /\ InLoop
    /\ methods[idx] \notin {"pdfplumber", "pypdf", "pdfminer"}
    /\ JudgeStep(methods[idx], Outcome(extracted_text, <<>>, <<>>))
    /\ UNCHANGED <<file, method, checked, methods, calls, last, result>>

\* Lines 195-203
Finish ==
    /\ pc = "break" \/ (pc = "loop" /\ idx > Len(methods))
    /\ log' = Append(log, IF Truthy(extracted_text)
                          THEN Log("info", "orchestrator", "done")
                          ELSE Log("error", "orchestrator", "all_failed"))
    /\ result' = extracted_text
    /\ pc' = "done"
    /\ UNCHANGED <<file, method, checked, methods, idx, extracted_text, calls, last>>

Next ==
    \/ CheckFile
    \/ Reject
    \/ Enter
    \/ TryPdfplumber
    \/ TryPypdf
    \/ TryPdfminer
    \/ TryOther
    \/ Finish

Spec == Init /\ [][Next]_vars

NextCheck ==
    \/ CheckFile
    \/ Reject
    \/ Enter

SpecCheck == InitCheck /\ [][NextCheck]_vars

\* ------------------------------------------------------------------ claims
Done == pc = "done"

Validated == checked[1]

Backends == {"pdfplumber", "pypdf", "pdfminer"}

PriorityOrder == <<"pdfplumber", "pypdf", "pdfminer">>

ReasonKinds == {"unavailable", "failed", "no_text", "low_quality"}

\* the per-method failure reasons written to the log for one backend
ReasonsOf(who) ==
    Cardinality({i \in 1..Len(log) : log[i].who = who /\ log[i].what \in ReasonKinds})

AllReasons == Cardinality({i \in 1..Len(log) : log[i].what \in ReasonKinds})

Attempted(who) == \E i \in 1..Len(calls) : calls[i].name = who

WasAccepted == \E i \in 1..Len(log) : log[i].what = "success"

FirstGood ==
    CHOOSE i \in 1..Len(calls) : calls[i].libgood /\ \A j \in 1..(i - 1) : ~ calls[j].libgood

RECURSIVE Segments(_, _)
\* the lines of pages i.. of a page-oriented output: for each page its marker
\* line and then the lines of its text
Segments(pages, i) ==
    IF i > Len(pages) THEN <<>>
    ELSE (IF Truthy(pages[i]) THEN <<PageMarker(i)>> \o pages[i] ELSE <<NoTextMarker(i)>>)
         \o Segments(pages, i + 1)

ExpectedOutput(pages) == Segments(pages, 1) \o <<EmptyLine>>

IsPageMarker(l) == l.id \in {"Page", "NoText"}

\* C1: in automatic mode on a valid document, if some backend's text has 6 or
\* more content lines, the request succeeds and returns the output of the
\* first such backend in the order pdfplumber, pypdf, pdfminer.
C1_FirstGoodBackendWins ==
    (Done /\ Validated /\ method = "auto" /\ \E i \in 1..Len(calls) : calls[i].libgood)
    => /\ result # None
       /\ Len(calls) = FirstGood
       /\ last.name = calls[FirstGood].name
       /\ result = last.out

\* C2: when every attempted backend returned an empty, whitespace-only or
\* marker-only result, the request ends without text and the log holds
\* exactly one failure reason for each backend attempted and none for the others.
C2_OneReasonPerAttempt ==
    (Done /\ Validated
          /\ \A i \in 1..Len(calls) :
                calls[i].cls \in {"none", "empty", "blank", "allnotext", "marker"})
    => /\ ~ Truthy(result)
       /\ \A b \in Backends : ReasonsOf(b) = IF Attempted(b) THEN 1 ELSE 0

Signature == <<"%", "P", "D", "F", "-">>

\* C3: check_pdf_file rejects a missing path, then an existing path without
\* the .pdf extension, then an existing readable .pdf file whose first 5 bytes
\* are not the PDF signature %PDF-, in that order and with three different
\* reasons.
C3_ValidatorRejects ==
    pc # "start"
    => /\ (~ file.exists => checked = <<FALSE, "not_found">>)
       /\ (file.exists /\ file.ext \notin {".pdf", ".PDF"}
             => checked = <<FALSE, "not_pdf_format">>)
       /\ (file.exists /\ file.ext \in {".pdf", ".PDF"} /\ file.readable
             /\ Len(file.content) >= 5 /\ SubSeq(file.content, 1, 5) # Signature
             => checked = <<FALSE, "no_signature">>)

NoTextThenRealText ==
    /\ Done /\ Validated /\ method = "auto"
    /\ file.pages >= 1
    /\ Len(calls) >= 2
    /\ calls[1].cls = "allnotext"
    /\ calls[2].lib = "ok" /\ calls[2].allreal

SecondBackendResult ==
    /\ Truthy(result)
    /\ Len(calls) = 2
    /\ last.name = "pypdf"
    /\ Len(last.input) = file.pages
    /\ result = last.out
    /\ result = ExpectedOutput(last.input)

\* C4 as claimed: an N-page document (N >= 1) whose pages pdfplumber all marks
\* "no text" and pypdf all returns with real text ends, in automatic mode, in
\* pypdf's result with all N pages and their text.
C4_Original == NoTextThenRealText => SecondBackendResult

\* C4 as amended: the same, when pypdf's pages hold more than 5 content lines
\* in all.
C4_Amended == (NoTextThenRealText /\ calls[2].libgood) => SecondBackendResult

C4_Witness ==
    /\ NoTextThenRealText /\ calls[2].libgood
    /\ file.pages = 3
    /\ SecondBackendResult

\* C5: with a single named method selected only that backend is invoked, once;
\* if it is unavailable the request fails with exactly one recorded reason.
C5_SingleMethodOnly ==
    method \in Backends
    => /\ Len(calls) <= 1
       /\ \A i \in 1..Len(calls) : calls[i].name = method
       /\ (Done /\ Validated => Len(calls) = 1)
       /\ (Done /\ Validated /\ calls[1].cls = "unavailable"
             => result = None /\ AllReasons = 1 /\ ReasonsOf(method) = 1)

C5_Witness ==
    /\ Done /\ Validated /\ method = "pypdf"
    /\ Len(calls) = 1 /\ calls[1].cls = "unavailable"
    /\ result = None /\ AllReasons = 1

C7_PageSegments ==
    (last.name \in {"pdfplumber", "pypdf"} /\ last.lib = "ok")
    => /\ Len(last.parts) = file.pages
       /\ \A i \in 1..Len(last.parts) :
             last.parts[i][1] = IF Truthy(last.input[i]) THEN PageMarker(i) ELSE NoTextMarker(i)
       /\ SelectSeq(last.out, IsPageMarker)
             = [i \in 1..file.pages |->
                   IF Truthy(last.input[i]) THEN PageMarker(i) ELSE NoTextMarker(i)]
       /\ last.out = ExpectedOutput(last.input)

C7_Witness ==
    /\ last.name = "pdfplumber" /\ last.lib = "ok"
    /\ file.pages = 3
    /\ Truthy(last.input[1]) /\ ~ Truthy(last.input[2]) /\ Truthy(last.input[3])
    /\ Len(last.parts) = 3

\* C8: when validation fails the request returns None and no backend is
\* invoked, whatever the method selector; a backend is invoked only after
\* validation succeeded.
C8_NoBackendBeforeValidation ==
    /\ (pc # "start" /\ ~ Validated
          => calls = <<>> /\ last = NoCall /\ pc \in {"checked", "done"}
             /\ (Done => result = None))
    /\ (calls # <<>> => Validated /\ file.exists /\ file.readable)

C8_Witness ==
    /\ Done /\ ~ Validated /\ file.exists /\ method = "auto"
    /\ calls = <<>> /\ result = None

\* C9: backends are invoked one at a time in the order pdfplumber, pypdf,
\* pdfminer, each at most once, a later one only after every earlier one was
\* not accepted, and none after a result was accepted.
C9_OrderedOnceEach ==
    /\ Len(calls) <= 3
    /\ (method = "auto" => \A i \in 1..Len(calls) : calls[i].name = PriorityOrder[i])
    /\ \A i, j \in 1..Len(calls) : i # j => calls[i].name # calls[j].name
    /\ \A i \in 1..(Len(calls) - 1) : calls[i].cls # "good"
    /\ Cardinality({i \in 1..Len(log) : log[i].what = "success"}) <= 1
    /\ (WasAccepted => calls[Len(calls)].cls = "good" /\ pc \in {"break", "done"})

C9_Witness ==
    /\ Done /\ method = "auto"
    /\ Len(calls) = 2
    /\ calls[1].cls = "few" /\ calls[2].cls = "good"
    /\ WasAccepted

\* C10: a string returned by extract_pdf_text (anything but None) is the
\* unmodified output of one backend invocation and passed the quality
\* judgement: it is not empty or whitespace-only and has more than 5 content lines.
C10_ReturnedTextWasAccepted ==
    (Done /\ result # None)
    => /\ last.name \in Backends
       /\ result = last.out
       /\ StripNonEmpty(result)
       /\ CountContent(result) > 5

====
